---------------------------- MODULE Spec2Model ----------------------------
(***************************************************************************)
(* Model of AzureAPIs/function_app.py: the get_portfolio endpoint          *)
(* (get_assets), the cache layer get_cached_or_live_data, the classifier   *)
(* get_exhaustive_data and the CSV importer process_fidelity_csv.          *)
(*                                                                         *)
(* Conventions.                                                            *)
(*  - A Python str is a sequence of one-character strings, so that strip,  *)
(*    upper, replace, endswith, "in" and float() are computed, not assumed.*)
(*  - A Python float is a fixed-point integer counting hundredths          *)
(*    (150.00 is 15000).  Binary rounding error is outside the model.      *)
(*  - A nullable value (SQL NULL, Python None) is a sequence of length at  *)
(*    most one: <<>> is NULL/None, <<v>> is the value v.                   *)
(*  - One request runs to completion in one step (one connection per       *)
(*    request, lines 183 and 308-310), except under SpecRace, where two    *)
(*    GET requests run statement by statement.                             *)
(***************************************************************************)
EXTENDS Integers, Sequences, FiniteSets, TLC

-----------------------------------------------------------------------------
(* Python values                                                           *)

None == <<>>

Some(v) == <<v>>

IsNone(x) == x = <<>>

\* F applied to the value of x: x is evaluated once, as a Python local is.
Bind(x, F(_)) == CHOOSE y \in {F(v) : v \in {x}} : TRUE

\* Python truthiness of a nullable number: None and 0 are falsy.
TruthyNum(x) == x # None /\ x[1] # 0

\* Python truthiness of a nullable str: None and "" are falsy.
TruthyStr(x) == x # None /\ x[1] # <<>>

-----------------------------------------------------------------------------
(* str operations                                                          *)

LowerCase == <<"a","b","c","d","e","f","g","h","i","j","k","l","m",
               "n","o","p","q","r","s","t","u","v","w","x","y","z">>

UpperCase == <<"A","B","C","D","E","F","G","H","I","J","K","L","M",
               "N","O","P","Q","R","S","T","U","V","W","X","Y","Z">>

Digits == <<"0","1","2","3","4","5","6","7","8","9">>

Whitespace == {" ", "\t", "\n", "\r"}

InSeq(c, s) == \E i \in 1..Len(s) : s[i] = c

IndexOf(c, s) == CHOOSE i \in 1..Len(s) : s[i] = c

UpperChar(c) == IF InSeq(c, LowerCase) THEN UpperCase[IndexOf(c, LowerCase)] ELSE c

\* str.upper()
upper(s) == [i \in 1..Len(s) |-> UpperChar(s[i])]

RECURSIVE lstrip(_)
lstrip(s) == IF s # <<>> /\ Head(s) \in Whitespace THEN lstrip(Tail(s)) ELSE s

RECURSIVE rstrip(_)
rstrip(s) ==
    IF s # <<>> /\ s[Len(s)] \in Whitespace THEN rstrip(SubSeq(s, 1, Len(s) - 1)) ELSE s

\* str.strip()
strip(s) == rstrip(lstrip(s))

\* str.replace(c, '') for a one-character c
remove(s, c) == SelectSeq(s, LAMBDA x : x # c)

\* sub in s
contains(s, sub) ==
    \E i \in 1..(Len(s) - Len(sub) + 1) : SubSeq(s, i, i + Len(sub) - 1) = sub

\* s.endswith(suf)
endswith(s, suf) ==
    Len(s) >= Len(suf) /\ SubSeq(s, Len(s) - Len(suf) + 1, Len(s)) = suf

IsDigits(s) == \A i \in 1..Len(s) : InSeq(s[i], Digits)

RECURSIVE DigitsValue(_)
DigitsValue(s) ==
    IF s = <<>> THEN 0
    ELSE 10 * DigitsValue(SubSeq(s, 1, Len(s) - 1)) + (IndexOf(s[Len(s)], Digits) - 1)

\* The first two fraction digits, as hundredths.
FractionValue(f) ==
    IF Len(f) = 0 THEN 0
    ELSE IF Len(f) = 1 THEN 10 * DigitsValue(f)
    ELSE DigitsValue(SubSeq(f, 1, 2))

\* float(str): [ok |-> FALSE] is ValueError.  Accepted here: optional
\* surrounding whitespace, an optional sign, digits with at most one '.',
\* at least one digit.
ParseParts(ip, fp) ==
    IF IsDigits(ip) /\ IsDigits(fp) /\ Len(ip) + Len(fp) > 0
    THEN [ok |-> TRUE, v |-> 100 * DigitsValue(ip) + FractionValue(fp)]
    ELSE [ok |-> FALSE, v |-> 0]

ParseUnsigned(t) ==
    Bind({i \in 1..Len(t) : t[i] = "."}, LAMBDA dots :
        IF Cardinality(dots) > 1 THEN [ok |-> FALSE, v |-> 0]
        ELSE IF dots = {} THEN ParseParts(t, <<>>)
        ELSE Bind(CHOOSE i \in dots : TRUE, LAMBDA d :
                ParseParts(SubSeq(t, 1, d - 1), SubSeq(t, d + 1, Len(t)))))

Negate(p) == [ok |-> p.ok, v |-> 0 - p.v]

ParseSigned(t) ==
    IF t # <<>> /\ t[1] = "-" THEN Bind(ParseUnsigned(Tail(t)), Negate)
    ELSE IF t # <<>> /\ t[1] = "+" THEN ParseUnsigned(Tail(t))
    ELSE ParseUnsigned(t)

float(s) == Bind(strip(s), ParseSigned)

-----------------------------------------------------------------------------
(* dict.get and json                                                       *)

\* A dict entry is <<>> when the key is absent and <<x>> when it is present
\* with value x (x may itself be None).  dict.get(key, default):
DictGet(entry, default) == IF entry = <<>> THEN default ELSE entry[1]

Tok(t, n) == [t |-> t, n |-> n]

RECURSIVE JoinNumbers(_)
JoinNumbers(xs) ==
    IF xs = <<>> THEN <<>>
    ELSE IF Len(xs) = 1 THEN <<Tok("num", xs[1])>>
    ELSE <<Tok("num", xs[1]), Tok(",", 0)>> \o JoinNumbers(Tail(xs))

\* json.dumps(list of float): the text, as its sequence of tokens
json_dumps(xs) == <<Tok("[", 0)>> \o JoinNumbers(xs) \o <<Tok("]", 0)>>

RECURSIVE ParseNumbers(_)
ParseNumbers(ts) ==
    IF ts = <<>> THEN [ok |-> FALSE, v |-> <<>>]
    ELSE IF ts[1].t # "num" THEN [ok |-> FALSE, v |-> <<>>]
    ELSE IF Len(ts) = 1 THEN [ok |-> TRUE, v |-> <<ts[1].n>>]
    ELSE IF ts[2].t # "," THEN [ok |-> FALSE, v |-> <<>>]
    ELSE LET r == ParseNumbers(SubSeq(ts, 3, Len(ts)))
         IN  [ok |-> r.ok, v |-> <<ts[1].n>> \o r.v]

\* json.loads(text): [ok |-> FALSE] is an exception (TypeError for None,
\* JSONDecodeError for text that is no list of numbers).
json_loads(text) ==
    IF text = None THEN [ok |-> FALSE, v |-> <<>>]
    ELSE LET ts == text[1]
         IN  IF Len(ts) < 2 \/ ts[1].t # "[" \/ ts[Len(ts)].t # "]"
             THEN [ok |-> FALSE, v |-> <<>>]
             ELSE IF Len(ts) = 2 THEN [ok |-> TRUE, v |-> <<>>]
             ELSE ParseNumbers(SubSeq(ts, 2, Len(ts) - 1))

-----------------------------------------------------------------------------
(* The Portfolio table and the SQL statements the code issues              *)

\* One row; the columns of section "INSERT INTO Portfolio" and of the SELECTs.
Row(t, sh, pp, pd, cp, cat, tr, lu) ==
    [Ticker |-> t, Shares |-> sh, PurchasePrice |-> pp, PurchaseDate |-> pd,
     CurrentPrice |-> cp, category |-> cat, CachedTrend |-> tr, LastUpdated |-> lu]

\* The positions of the rows WHERE Ticker = t
Matching(tbl, t) == {i \in 1..Len(tbl) : tbl[i].Ticker = t}

CountRows(tbl, t) == Cardinality(Matching(tbl, t))

\* DELETE FROM Portfolio WHERE Ticker = ?
SqlDelete(tbl, t) == SelectSeq(tbl, LAMBDA r : r.Ticker # t)

\* UPDATE Portfolio SET Shares, PurchasePrice, PurchaseDate WHERE Ticker = ?
SqlUpdatePosition(tbl, t, sh, pp, pd) ==
    [i \in 1..Len(tbl) |->
        IF tbl[i].Ticker = t
        THEN [tbl[i] EXCEPT !.Shares = sh, !.PurchasePrice = pp, !.PurchaseDate = pd]
        ELSE tbl[i]]

\* C14 mutant: the importer's UPDATE without LastUpdated = NULL
SqlUpdateImport_KeepsStamp(tbl, t, sh, pp, cp) == [i \in 1..Len(tbl) |-> IF tbl[i].Ticker = t THEN [tbl[i] EXCEPT !.Shares = sh, !.PurchasePrice = pp, !.CurrentPrice = cp] ELSE tbl[i]]

\* UPDATE Portfolio SET Shares, PurchasePrice, CurrentPrice, LastUpdated = NULL
SqlUpdateImport(tbl, t, sh, pp, cp) ==
    [i \in 1..Len(tbl) |->
        IF tbl[i].Ticker = t
        THEN [tbl[i] EXCEPT !.Shares = sh, !.PurchasePrice = pp,
                            !.CurrentPrice = cp, !.LastUpdated = None]
        ELSE tbl[i]]

\* INSERT INTO Portfolio (Ticker, Shares, PurchasePrice, CurrentPrice, LastUpdated)
\* VALUES (?, ?, ?, ?, NULL): the columns not named are NULL.
SqlInsertImport(tbl, t, sh, pp, cp) ==
    Append(tbl, Row(t, sh, pp, None, cp, None, None, None))

\* C12 mutant: the UPDATE without its WHERE clause
SqlUpdateCache_AllRows(tbl, t, lu, tr, cat, cp) == [i \in 1..Len(tbl) |-> [tbl[i] EXCEPT !.LastUpdated = lu, !.CachedTrend = tr, !.category = cat, !.CurrentPrice = cp]]

\* UPDATE Portfolio SET LastUpdated, CachedTrend, category, CurrentPrice
SqlUpdateCache(tbl, t, lu, tr, cat, cp) ==
    [i \in 1..Len(tbl) |->
        IF tbl[i].Ticker = t
        THEN [tbl[i] EXCEPT !.LastUpdated = lu, !.CachedTrend = tr,
                            !.category = cat, !.CurrentPrice = cp]
        ELSE tbl[i]]

\* C20 mutant: the POST's INSERT without CachedTrend
SqlInsertAdd_NoTrend(tbl, t, sh, pp, pd, lu, tr, cat) == Append(tbl, Row(t, sh, pp, pd, None, cat, None, lu))

\* INSERT INTO Portfolio (Ticker, Shares, PurchasePrice, PurchaseDate,
\* LastUpdated, CachedTrend, category): CurrentPrice is not named, so NULL.
SqlInsertAdd(tbl, t, sh, pp, pd, lu, tr, cat) ==
    Append(tbl, Row(t, sh, pp, pd, None, cat, tr, lu))

-----------------------------------------------------------------------------
(* The clock                                                               *)

\* One step of the model clock, in seconds (three hours).
TickSeconds == 10800

\* line 85: the freshness window of 6 hours, in seconds
FreshSeconds == 21600

\* lines 83-85: row.LastUpdated is set and (now - LastUpdated) < 21600 s
IsFresh(row, clock) ==
    /\ row.LastUpdated # None
    /\ (clock - row.LastUpdated[1]) * TickSeconds < FreshSeconds

-----------------------------------------------------------------------------
(* get_exhaustive_data (lines 100-154)                                     *)

\* What the quote provider answers for one lookup: raises is an exception
\* out of yf.Ticker(..).info or .history(..); info is the metadata dict
\* (entries as for DictGet); hist is the 'Close' column of the 7-day history,
\* None standing for NaN.
Reply(raises, cp, nav, qt, sector, longName, hist) ==
    [raises |-> raises, currentPrice |-> cp, navPrice |-> nav, quoteType |-> qt,
     sector |-> sector, longName |-> longName, hist |-> hist]

IsUpperLetter(c) == InSeq(c, UpperCase)

\* line 109: re.search(r'[A-Z]{3}XX[\*]*$', s).  '$' matches at the end and
\* before a final newline.
OnlyStarsToEnd(s, from) ==
    LET rest == SubSeq(s, from, Len(s))
        body == IF rest # <<>> /\ rest[Len(rest)] = "\n"
                THEN SubSeq(rest, 1, Len(rest) - 1) ELSE rest
    IN  \A i \in 1..Len(body) : body[i] = "*"

\* C11 mutant: the pattern without the trailing '*'
CashPattern_NoStars(s) == Len(s) >= 5 /\ IsUpperLetter(s[Len(s) - 4]) /\ IsUpperLetter(s[Len(s) - 3]) /\ IsUpperLetter(s[Len(s) - 2]) /\ s[Len(s) - 1] = "X" /\ s[Len(s)] = "X"

CashPattern(s) ==
    \E i \in 1..(Len(s) - 4) :
        /\ IsUpperLetter(s[i]) /\ IsUpperLetter(s[i + 1]) /\ IsUpperLetter(s[i + 2])
        /\ s[i + 3] = "X" /\ s[i + 4] = "X"
        /\ OnlyStarsToEnd(s, i + 5)

\* line 131
cash_equivalents ==
    { <<"B","I","L">>, <<"S","G","O","V">>, <<"C","L","I","P">>,
      <<"S","H","V">>, <<"V","G","S","H">> }

International == <<"I","n","t","e","r","n","a","t","i","o","n","a","l">>

\* line 123: hist['Close'].fillna(0).tolist() if not hist.empty else []
fillna(hist) == [i \in 1..Len(hist) |-> IF hist[i] = None THEN 0 ELSE hist[i][1]]

\* C13 mutant: a failure answered without a price
Degraded_NoPrice(queried) == [price |-> None, category |-> "Other", trend |-> <<>>, queried |-> queried]

\* lines 152-154
Degraded(queried) ==
    [price |-> Some(0), category |-> "Other", trend |-> <<>>, queried |-> queried]

\* lines 130-147.  raised is the TypeError of ("International" in None).
Categorize(ticker_upper, reply) ==
    LET is_cash_etf == ticker_upper \in cash_equivalents
        longName    == DictGet(reply.longName, Some(<<>>))
        sector      == DictGet(reply.sector, None)
    IN  IF DictGet(reply.quoteType, None) = Some("ETF")
        THEN IF is_cash_etf THEN [raised |-> FALSE, category |-> "Cash & Liquidity"]
             ELSE IF longName = None THEN [raised |-> TRUE, category |-> "Other"]
             ELSE IF contains(longName[1], International)
                  THEN [raised |-> FALSE, category |-> "International Equity"]
                  ELSE [raised |-> FALSE, category |-> "Equity ETFs"]
        ELSE IF sector # None /\ sector[1] # ""
             THEN IF sector[1] \in {"Technology", "Communication Services"}
                  THEN [raised |-> FALSE, category |-> "Growth/Tech"]
                  ELSE [raised |-> FALSE, category |-> sector[1]]
             ELSE [raised |-> FALSE, category |-> "Other/Miscellaneous"]

\* lines 125-128
DeterminePrice(reply, trend_data) ==
    LET current_price == DictGet(reply.currentPrice, DictGet(reply.navPrice, Some(0)))
    IN  IF current_price = Some(0) /\ trend_data # <<>>
        THEN Some(trend_data[Len(trend_data)])
        ELSE current_price

\* lines 118-150, once the lookup has answered
Classified(ticker, reply, trend_data, cat) ==
    IF cat.raised THEN Degraded(<<ticker>>)
    ELSE [price |-> DeterminePrice(reply, trend_data), category |-> cat.category,
          trend |-> trend_data, queried |-> <<ticker>>]

\* line 112: the cash answer; no symbol of the ticker is asked for
Cash(ticker) ==
    [price |-> Some(100), category |-> "Cash & Liquidity",
     trend |-> <<100, 100, 100, 100, 100, 100, 100>>,
     queried |-> SelectSeq(<<ticker>>, LAMBDA t : FALSE)]

Lookup(ticker, ticker_upper, reply) ==
    IF CashPattern(ticker_upper)
    THEN Cash(ticker)
    ELSE IF reply.raises THEN Degraded(<<ticker>>)
    ELSE Bind(fillna(reply.hist), LAMBDA trend_data :
            Bind(Categorize(ticker_upper, reply), LAMBDA cat :
                Classified(ticker, reply, trend_data, cat)))

\* The whole function: price (None when the provider reports a null price),
\* category, trend, and the symbols it asked the provider for (line 118
\* passes the ticker it was given).
get_exhaustive_data(ticker, reply) ==
    Bind(upper(ticker), LAMBDA ticker_upper : Lookup(ticker, ticker_upper, reply))

-----------------------------------------------------------------------------
(* get_cached_or_live_data (lines 74-98)                                   *)

\* lines 83-86: the answer from the row read.  raised is the exception of
\* json.loads on a NULL or malformed CachedTrend.
Cached(row, tbl, trend) ==
    [raised |-> ~trend.ok,
     price |-> IF TruthyNum(row.CurrentPrice) THEN row.CurrentPrice ELSE Some(0),
     category |-> row.category, trend |-> trend.v,
     passes |-> 0, queried |-> <<>>, wrote |-> FALSE, table |-> tbl]

FromCache(row, tbl) ==
    Bind(json_loads(row.CachedTrend), LAMBDA trend : Cached(row, tbl, trend))

\* lines 91-98: write the cache columns.  float(price) raises TypeError on
\* None, before the UPDATE is issued.
WriteBack(ticker, tbl, live, clock) ==
    IF live.price = None
    THEN [raised |-> TRUE, price |-> live.price, category |-> Some(live.category),
          trend |-> live.trend, passes |-> 1, queried |-> live.queried,
          wrote |-> FALSE, table |-> tbl]
    ELSE [raised |-> FALSE, price |-> live.price, category |-> Some(live.category),
          trend |-> live.trend, passes |-> 1, queried |-> live.queried,
          wrote |-> TRUE,
          table |-> SqlUpdateCache(tbl, ticker, Some(clock), Some(json_dumps(live.trend)),
                                   Some(live.category), live.price)]

\* lines 88-98: fetch live, then write back
Refresh(ticker, tbl, reply, clock) ==
    Bind(get_exhaustive_data(ticker, reply), LAMBDA live :
        WriteBack(ticker, tbl, live, clock))

\* C1 mutant: a cache layer that ignores the row it read and always refreshes
get_cached_or_live_data_AlwaysLive(ticker, tbl, read, reply, clock) == Refresh(ticker, tbl, reply, clock)

\* One call.  read is what SELECT TOP 1 .. WHERE Ticker = ? returned: None,
\* or one of the matching rows (no ORDER BY: any of them).
get_cached_or_live_data(ticker, tbl, read, reply, clock) ==
    IF read # None /\ IsFresh(read[1], clock)
    THEN FromCache(read[1], tbl)
    ELSE Refresh(ticker, tbl, reply, clock)

\* The rows SELECT TOP 1 may return
TopOne(tbl, ticker) ==
    IF Matching(tbl, ticker) = {} THEN {None}
    ELSE {Some(tbl[i]) : i \in Matching(tbl, ticker)}

-----------------------------------------------------------------------------
(* process_fidelity_csv (lines 17-72)                                      *)

\* One dict yielded by csv.DictReader: each column is a dict entry, <<>> when
\* the header has no such column, <<None>> when the line is shorter than the
\* header (DictReader fills the missing cells with None), <<text>> otherwise.
CsvRow(sym, qty, cost, last, value) ==
    [Symbol |-> sym, Quantity |-> qty, Cost |-> cost, LastPrice |-> last, Value |-> value]

SYMBOL == <<"S","Y","M","B","O","L">>

PENDING == <<"P","E","N","D","I","N","G">>

DashDash == <<"-","-">>

NotAvailable == <<"n","/","a">>

\* line 28: the rows the import skips
IsFiltered(ticker) == ticker = <<>> \/ ticker = SYMBOL \/ contains(ticker, PENDING)

\* lines 34-36: .replace('$', '').replace(',', '').strip()
CleanMoney(text) == strip(remove(remove(text, "$"), ","))

Parsed(v) == [ok |-> TRUE, v |-> v]

\* lines 38-41: the cash-like branch.  ok = FALSE is a ValueError of float().
CashValues(q, c) ==
    [ok |-> q.ok /\ c.ok, shares |-> q.v, purchase_price |-> c.v, current_price |-> 100]

CashBranch(raw_qty, raw_cost) ==
    Bind(IF raw_qty # <<>> /\ raw_qty # DashDash THEN float(raw_qty) ELSE Parsed(0),
         LAMBDA q :
    Bind(IF raw_cost # <<>> /\ raw_cost # DashDash /\ raw_cost # NotAvailable
         THEN float(raw_cost) ELSE Parsed(0),
         LAMBDA c : CashValues(q, c)))

\* lines 42-45: the ordinary branch
OrdinaryValues(q, c, l) ==
    [ok |-> q.ok /\ c.ok /\ l.ok, shares |-> q.v, purchase_price |-> c.v,
     current_price |-> l.v]

OrdinaryBranch(raw_qty, raw_cost, raw_last_price) ==
    Bind(float(remove(raw_qty, ",")), LAMBDA q :
    Bind(IF raw_cost # <<>> /\ raw_cost # DashDash
         THEN float(remove(remove(raw_cost, "$"), ",")) ELSE Parsed(0),
         LAMBDA c :
    Bind(IF raw_last_price # <<>> /\ raw_last_price # DashDash
         THEN float(raw_last_price) ELSE Parsed(0),
         LAMBDA l : OrdinaryValues(q, c, l))))

\* line 38
Branch(ticker, raw_qty, raw_cost, raw_last_price) ==
    IF raw_qty = <<>> \/ raw_qty = DashDash \/ endswith(ticker, <<"X","X">>)
    THEN CashBranch(raw_qty, raw_cost)
    ELSE OrdinaryBranch(raw_qty, raw_cost, raw_last_price)

\* lines 33-46: the numeric fields of a row that passed the filter
ParseFields(ticker, qty, cost, last) ==
    Bind(strip(qty), LAMBDA raw_qty :
    Bind(CleanMoney(cost), LAMBDA raw_cost :
    Bind(CleanMoney(last), LAMBDA raw_last_price :
        Branch(ticker, raw_qty, raw_cost, raw_last_price))))

Outcome(kind, ticker, shares, purchase_price, current_price) ==
    [kind |-> kind, ticker |-> ticker, shares |-> shares,
     purchase_price |-> purchase_price, current_price |-> current_price]

\* lines 31-46 and 67-69: the try block up to the upsert
Parsing(ticker, f) ==
    IF f.ok THEN Outcome("upsert", ticker, f.shares, f.purchase_price, f.current_price)
    ELSE Outcome("rowerror", ticker, 0, 0, 0)

\* lines 26-46, for the ticker of line 25
Filtering(ticker, row) ==
    IF IsFiltered(ticker) THEN Outcome("filtered", ticker, 0, 0, 0)
    ELSE IF \/ DictGet(row.Quantity, Some(<<>>)) = None
            \/ DictGet(row.Cost, Some(<<"0">>)) = None
            \/ DictGet(row.LastPrice, Some(<<"0">>)) = None
            \/ DictGet(row.Value, Some(<<"0">>)) = None
    THEN Outcome("rowerror", ticker, 0, 0, 0)
    ELSE Bind(ParseFields(ticker, DictGet(row.Quantity, Some(<<>>))[1],
                          DictGet(row.Cost, Some(<<"0">>))[1],
                          DictGet(row.LastPrice, Some(<<"0">>))[1]),
              LAMBDA f : Parsing(ticker, f))

\* lines 24-46 for one row.  kind is
\*   "abort"    line 25 raised (Symbol is None, so None.strip()), outside
\*              the try of line 31;
\*   "filtered" lines 28-29;
\*   "rowerror" an exception inside the try, caught at line 67 (a cell that
\*              is None, or a ValueError of float());
\*   "upsert"   the values to write.
ProcessRow(row) ==
    IF DictGet(row.Symbol, Some(<<>>)) = None THEN Outcome("abort", <<>>, 0, 0, 0)
    ELSE Bind(upper(strip(DictGet(row.Symbol, Some(<<>>))[1])),
              LAMBDA ticker : Filtering(ticker, row))

\* lines 48-62: SELECT, then UPDATE or INSERT
Upsert(tbl, p) ==
    IF Matching(tbl, p.ticker) # {}
    THEN SqlUpdateImport(tbl, p.ticker, Some(p.shares), Some(p.purchase_price),
                         Some(p.current_price))
    ELSE SqlInsertImport(tbl, p.ticker, Some(p.shares), Some(p.purchase_price),
                         Some(p.current_price))

\* lines 23-69 for one row; acc is the state of the run so far: the table,
\* the count, the tickers upserted and the number of rows visited.
ImportStep(acc, p) ==
    IF p.kind = "abort" THEN [acc EXCEPT !.aborted = TRUE]
    ELSE IF p.kind = "upsert"
    THEN [acc EXCEPT !.table = Upsert(acc.table, p), !.count = @ + 1,
                     !.upserted = Append(@, p.ticker), !.visited = @ + 1]
    ELSE [acc EXCEPT !.visited = @ + 1]

\* The loop of lines 23-69 over the rows that are left.
RECURSIVE ImportLoop(_, _)
ImportLoop(rows, acc) ==
    IF rows = <<>> \/ acc.aborted THEN acc
    ELSE Bind(Bind(ProcessRow(Head(rows)), LAMBDA p : ImportStep(acc, p)),
              LAMBDA a : ImportLoop(Tail(rows), a))

\* The whole function: aborted = TRUE is the exception of line 25 leaving it
\* (no count is returned, line 71 is not reached).
process_fidelity_csv(rows, tbl) ==
    ImportLoop(rows, [aborted |-> FALSE, table |-> tbl, count |-> 0,
                      upserted |-> <<>>, visited |-> 0])

-----------------------------------------------------------------------------
(* get_assets (lines 166-310): state and responses                         *)

VARIABLES
    table,   \* the rows of Portfolio, in insertion order
    now,     \* datetime.datetime.now(), in clock steps
    resp,    \* what the last request was, what it returned and what it did
    gets     \* the GET requests that run concurrently, each with its position

vars == <<table, now, resp, gets>>

\* The record of a request.  op names the branch of get_assets taken, req
\* its input, at the clock when it ran, status its HTTP status; list is the
\* portfolio_list of a GET and calls its get_cached_or_live_data calls in
\* order; count, visited, upserted and aborted are process_fidelity_csv's
\* outcome; live is the get_exhaustive_data result of a POST; again says
\* of an upload that the request before was an upload of the same file.
NoResp ==
    [op |-> "none", req |-> <<>>, at |-> 0, status |-> 0, list |-> <<>>,
     calls |-> <<>>, count |-> 0, visited |-> 0, upserted |-> <<>>,
     aborted |-> FALSE, live |-> <<>>, again |-> FALSE]

\* round(x, 2) of a product of two hundredths (x counts ten-thousandths):
\* to the nearest hundredth, ties to the even one.
Round2(x) ==
    LET q == x \div 100
        r == x % 100
    IN  IF r > 50 \/ (r = 50 /\ q % 2 = 1) THEN q + 1 ELSE q

\* lines 201-206
GainLoss(row, current_price) ==
    LET bought_at == IF TruthyNum(row.PurchasePrice) THEN row.PurchasePrice[1] ELSE 0
        shares    == IF TruthyNum(row.Shares) THEN row.Shares[1] ELSE 0
        curr_p    == IF TruthyNum(current_price) THEN current_price[1] ELSE 0
    IN  Round2((curr_p - bought_at) * shares)

\* lines 209-217
Entry(row, r) ==
    [ticker |-> row.Ticker,
     shares |-> IF TruthyNum(row.Shares) THEN row.Shares[1] ELSE 0,
     price_bought |-> IF TruthyNum(row.PurchasePrice) THEN row.PurchasePrice[1] ELSE 0,
     date_added |-> row.PurchaseDate,
     gain_loss |-> GainLoss(row, r.price),
     category |-> r.category,
     trend_data |-> r.trend]

\* One get_cached_or_live_data call: the row read and the call's outcome;
\* failed says that the call made a provider lookup and the lookup raised.
LogCall(row, read, reply, r) ==
    [ticker |-> row.Ticker, read |-> read, raised |-> r.raised, price |-> r.price,
     category |-> r.category, trend |-> r.trend, passes |-> r.passes,
     queried |-> r.queried, wrote |-> r.wrote, table |-> r.table,
     failed |-> r.queried # <<>> /\ reply.raises]

Call(row, read, reply, result) == Bind(result, LAMBDA r : LogCall(row, read, reply, r))

\* lines 192-221: the loop over the rows fetched at line 189, against the
\* table as the calls before have left it.  The set of its possible
\* outcomes: one per choice of the provider's replies and of the rows
\* TOP 1 returns.
\* What the record of a request keeps of a call
Logged(c) ==
    [ticker |-> c.ticker, read |-> c.read, raised |-> c.raised, price |-> c.price,
     category |-> c.category, trend |-> c.trend, passes |-> c.passes,
     queried |-> c.queried, wrote |-> c.wrote, failed |-> c.failed]

Glue(row, c, rest) ==
    [table |-> rest.table,
     list  |-> IF c.raised THEN rest.list ELSE <<Entry(row, c)>> \o rest.list,
     calls |-> <<Logged(c)>> \o rest.calls]

RECURSIVE GetLoop(_, _, _, _)
GetLoop(rows, tbl, clock, replies) ==
    IF rows = <<>> THEN {[table |-> tbl, list |-> <<>>, calls |-> <<>>]}
    ELSE UNION { { Glue(rows[1], c, rest)
                   : rest \in GetLoop(Tail(rows), c.table, clock, replies) }
                 : c \in { Call(rows[1], read, reply,
                                get_cached_or_live_data(rows[1].Ticker, tbl, read,
                                                        reply, clock))
                           : read \in TopOne(tbl, rows[1].Ticker), reply \in replies } }

-----------------------------------------------------------------------------
(* get_assets: one action per branch                                       *)

\* The most rows the table is let grow to, and the last clock step.
MaxRows == 2

MaxClock == 2

Absent == <<>>

Present(x) == <<x>>

Again(op, req) == resp.op = op /\ resp.req = req

\* The requests that may run at the same time, and one that has not begun
Requests == {1, 2}

\* rows are the rows of line 189 still to process; read, live and returned
\* are the row get_cached_or_live_data read, what get_exhaustive_data gave
\* and what the call returned, for the row processed last; pending are the
\* UPDATEs of the request's transaction; last marks the request that
\* committed an UPDATE last.
Idle ==
    [pc |-> "idle", rows |-> <<>>, read |-> None, live |-> None, pending |-> <<>>,
     returned |-> None, last |-> FALSE]

Init ==
    /\ table = <<>>
    /\ now = 0
    /\ resp = NoResp
    /\ gets = [p \in Requests |-> Idle]

\* Time passes between requests.
Tick ==
    /\ now < MaxClock
    /\ now' = now + 1
    /\ UNCHANGED <<table, resp, gets>>

\* lines 187-223.  Leaving the with block of line 183 without an exception
\* commits what the calls wrote.
Get(replies) ==
    \E o \in GetLoop(table, table, now, replies) :
        /\ table' = o.table
        /\ resp' = [NoResp EXCEPT !.op = "GET", !.at = now, !.status = 200,
                                  !.list = o.list, !.calls = o.calls]
        /\ UNCHANGED <<now, gets>>

\* lines 227-246.  file is None when the request carries no 'file' field,
\* else the rows csv.DictReader yields for its content.  When line 25 raises,
\* line 245 answers 500 from inside the with block, which then commits the
\* rows upserted so far.
Upload(files) ==
    \E file \in files :
        IF file = None
        THEN /\ resp' = [NoResp EXCEPT !.op = "upload", !.req = file, !.at = now,
                                       !.again = Again("upload", file), !.status = 400]
             /\ UNCHANGED <<table, now, gets>>
        ELSE \E r \in {process_fidelity_csv(file[1], table)} :
                /\ Len(r.table) <= MaxRows
                /\ table' = r.table
                /\ resp' = [NoResp EXCEPT !.op = "upload", !.req = file, !.at = now,
                                          !.again = Again("upload", file),
                                          !.status = IF r.aborted THEN 500 ELSE 200,
                                          !.count = r.count, !.visited = r.visited,
                                          !.upserted = r.upserted, !.aborted = r.aborted]
                /\ UNCHANGED <<now, gets>>

\* A JSON body: each key is a dict entry.
Body(ticker, shares, purchase_price, purchase_date) ==
    [ticker |-> ticker, shares |-> shares, purchase_price |-> purchase_price,
     purchase_date |-> purchase_date]

\* lines 248-270.  Status 500 is line 306: None.upper() at line 249 raises.
Post(bodies, replies) ==
    \E body \in bodies, reply \in replies :
        IF DictGet(body.ticker, None) = None
        THEN /\ resp' = [NoResp EXCEPT !.op = "POST", !.req = body, !.at = now, !.status = 500]
             /\ UNCHANGED <<table, now, gets>>
        ELSE \E ticker \in {upper(DictGet(body.ticker, None)[1])},
                shares \in {IF TruthyNum(DictGet(body.shares, None))
                            THEN DictGet(body.shares, None)[1] ELSE 0},
                purchase_price \in {IF TruthyNum(DictGet(body.purchase_price, None))
                                    THEN DictGet(body.purchase_price, None)[1] ELSE 0} :
             IF ticker = <<>> \/ shares <= 0
             THEN /\ resp' = [NoResp EXCEPT !.op = "POST", !.req = body, !.at = now, !.status = 400]
                  /\ UNCHANGED <<table, now, gets>>
             ELSE \E live \in {get_exhaustive_data(ticker, reply)} :
                  /\ Len(table) < MaxRows
                  /\ table' = SqlInsertAdd(table, ticker, Some(shares), Some(purchase_price),
                                           DictGet(body.purchase_date, None), Some(now),
                                           Some(json_dumps(live.trend)), Some(live.category))
                  /\ resp' = [NoResp EXCEPT !.op = "POST", !.req = body, !.at = now, !.status = 201,
                                            !.live = Some(live)]
                  /\ UNCHANGED <<now, gets>>

\* lines 273-288
Put(bodies) ==
    \E body \in bodies :
        LET ticker == DictGet(body.ticker, None)
            base == [NoResp EXCEPT !.op = "PUT", !.req = body, !.at = now]
        IN  IF ~TruthyStr(ticker)
            THEN /\ resp' = [base EXCEPT !.status = 400]
                 /\ UNCHANGED <<table, now, gets>>
            ELSE /\ table' = SqlUpdatePosition(table, ticker[1], DictGet(body.shares, None),
                                               DictGet(body.purchase_price, None),
                                               DictGet(body.purchase_date, None))
                 /\ resp' = [base EXCEPT !.status = 200]
                 /\ UNCHANGED <<now, gets>>

\* lines 291-300.  A request is the body's ticker entry and the URL's.
Delete(requests) ==
    \E q \in requests :
        LET inBody == DictGet(q.body, None)
            ticker == IF TruthyStr(inBody) THEN inBody ELSE DictGet(q.params, None)
            base == [NoResp EXCEPT !.op = "DELETE", !.req = q, !.at = now]
        IN  IF ~TruthyStr(ticker)
            THEN /\ resp' = [base EXCEPT !.status = 400]
                 /\ UNCHANGED <<table, now, gets>>
            ELSE /\ table' = SqlDelete(table, ticker[1])
                 /\ resp' = [base EXCEPT !.status = 200]
                 /\ UNCHANGED <<now, gets>>

-----------------------------------------------------------------------------
(* Inputs                                                                  *)

AAPL == <<"A","A","P","L">>

Text_aapl == <<"a","a","p","l">>

MSFT == <<"M","S","F","T">>

SPAXX == <<"S","P","A","X","X">>

TOTAL == <<"T","O","T","A","L">>

\* What the provider may answer (lines 118-126): an exception; a stock with
\* a price, a sector and two closes; a quote whose currentPrice is null.
ReplyRaises == Reply(TRUE, Absent, Absent, Absent, Absent, Absent, <<>>)

ReplyStock ==
    Reply(FALSE, Present(Some(12000)), Absent, Present(Some("EQUITY")),
          Present(Some("Technology")), Absent, <<Some(11800), Some(12000)>>)

ReplyNullPrice ==
    Reply(FALSE, Present(None), Absent, Present(Some("EQUITY")),
          Present(Some("Technology")), Absent, <<Some(11800), Some(12000)>>)

Replies == {ReplyRaises, ReplyStock, ReplyNullPrice}

\* Bodies of POST (lines 249-252)
PostBodies ==
    { Body(Present(Some(Text_aapl)), Present(Some(1000)), Present(Some(15000)), Absent),
      Body(Present(Some(AAPL)), Present(Some(0)), Present(Some(15000)), Absent),
      Body(Absent, Present(Some(1000)), Present(Some(15000)), Absent) }

\* Bodies of PUT (lines 274-277)
PutBodies ==
    { Body(Present(Some(AAPL)), Present(Some(2000)), Present(Some(9000)),
           Present(Some("2024-03-04"))),
      Body(Absent, Present(Some(2000)), Present(Some(9000)), Absent) }

\* DELETE requests (line 293)
DeleteRequests ==
    { [body |-> Present(Some(AAPL)), params |-> Absent],
      [body |-> Absent, params |-> Absent] }

Cell(text) == Present(Some(text))

ShortCell == Present(None)

\* Lines of a brokerage export, as csv.DictReader yields them.
RowAapl ==
    CsvRow(Cell(<<" ","a","a","p","l"," ">>), Cell(<<"1","0">>),
           Cell(<<"$","1","5","0",".","0","0">>), Cell(<<"$","1","2","0",".","0","0">>),
           Cell(<<"$","1",",","2","0","0",".","0","0">>))

RowMsft ==
    CsvRow(Cell(MSFT), Cell(<<"1",",","0","0","0">>), Cell(DashDash),
           Cell(<<"3","0","0">>), Cell(<<"3","0","0","0","0","0">>))

RowBlank == CsvRow(Cell(<<" ">>), Cell(<<>>), Cell(<<>>), Cell(<<>>), Cell(<<>>))

RowTotal ==
    CsvRow(Cell(<<"T","o","t","a","l">>), Cell(<<>>), Cell(<<>>), Cell(<<>>),
           Cell(<<"$","1",",","2","0","0",".","0","0">>))

RowPending ==
    CsvRow(Cell(<<"P","e","n","d","i","n","g"," ","A","c","t","i","v","i","t","y">>),
           Cell(<<>>), Cell(<<>>), Cell(<<>>), Cell(<<"$","5",".","0","0">>))

RowCash ==
    CsvRow(Cell(SPAXX), Cell(<<"2","5",".","5">>), Cell(NotAvailable),
           Cell(<<"$","1",".","0","0">>), Cell(<<"$","2","5",".","5","0">>))

RowCostNa ==
    CsvRow(Cell(AAPL), Cell(<<"1","0">>), Cell(NotAvailable),
           Cell(<<"$","1","2","0",".","0","0">>), Cell(<<"$","1",",","2","0","0">>))

RowBadQty ==
    CsvRow(Cell(MSFT), Cell(<<"a","b","c">>), Cell(<<"1","0">>), Cell(<<"1","0">>),
           Cell(<<"1","0">>))

SPAXX_Stars == <<"S","P","A","X","X","*","*">>

\* A money-market line with its '**' marker, a quantity and no last price
RowCashStars ==
    CsvRow(Cell(SPAXX_Stars), Cell(<<"5","0","0">>), Cell(DashDash), Cell(DashDash),
           Cell(<<"$","5","0","0",".","0","0">>))

RowNoQty == CsvRow(Cell(MSFT), ShortCell, ShortCell, ShortCell, ShortCell)

RowNoSymbol == CsvRow(ShortCell, ShortCell, ShortCell, ShortCell, ShortCell)

CsvRows ==
    { RowAapl, RowMsft, RowBlank, RowTotal, RowPending, RowCash, RowCostNa,
      RowBadQty, RowNoQty, RowNoSymbol, RowCashStars }

\* The uploads: no file, every line alone, and exports that mix lines.
CsvFiles ==
    {None} \cup {Some(<<r>>) : r \in CsvRows} \cup
    { Some(<<RowAapl, RowBlank, RowMsft, RowPending, RowCash>>),
      Some(<<RowAapl, RowTotal, RowPending>>),
      Some(<<RowMsft, RowCostNa, RowCash>>),
      Some(<<RowMsft, RowNoQty, RowCash>>),
      Some(<<RowMsft, RowNoSymbol, RowCash>>),
      Some(<<RowAapl, RowCostNa, RowAapl>>) }

-----------------------------------------------------------------------------
(* The endpoint                                                            *)

\* The uploads of the endpoint's specification: no file, and an export of a
\* cash line and a position.
CoreFiles == {None, Some(<<RowCash, RowAapl>>)}

Next ==
    \/ Tick
    \/ Get(Replies)
    \/ Upload(CoreFiles)
    \/ Post(PostBodies, Replies)
    \/ Put(PutBodies)
    \/ Delete(DeleteRequests)

Spec == Init /\ [][Next]_vars

\* The importer against the tables that uploads, adds and deletes build.
NextImport ==
    \/ Upload(CsvFiles)
    \/ Post({Body(Present(Some(AAPL)), Present(Some(1000)), Present(Some(10000)), Absent)},
            {ReplyStock})
    \/ Delete({[body |-> Present(Some(AAPL)), params |-> Absent]})

SpecImport == Init /\ [][NextImport]_vars

-----------------------------------------------------------------------------
(* Claims about the cache layer and the endpoint, checked under Spec       *)

\* The get_cached_or_live_data calls of the last request, if it was a GET
Calls == IF resp.op = "GET" THEN {resp.calls[i] : i \in 1..Len(resp.calls)} ELSE {}

\* The row a call read was Fresh when the request ran: LastUpdated set and
\* less than 21600 seconds before.
ReadFresh(c) ==
    /\ c.read # None
    /\ c.read[1].LastUpdated # None
    /\ (resp.at - c.read[1].LastUpdated[1]) * TickSeconds < 21600

ReadStale(c) == c.read # None /\ ~ReadFresh(c)

\* A call made no provider or classifier pass and issued no UPDATE.
NoPassNoWrite(c) == c.passes = 0 /\ c.queried = <<>> /\ ~c.wrote

RowsOf(t) == {table[i] : i \in Matching(table, t)}

\* C2 as stated: a call that reads a Stale row makes exactly one
\* get_exhaustive_data pass and writes what it returns with lastUpdated =
\* now, so that after the GET the ticker's row is Fresh and holds the triple
\* returned.
C2_StaleRefreshedAndPersisted ==
    \A c \in Calls :
        ReadStale(c) =>
            /\ c.passes = 1
            /\ c.wrote
            /\ \A r \in RowsOf(c.ticker) :
                /\ r.LastUpdated = Some(resp.at)
                /\ r.CurrentPrice = c.price
                /\ r.category = c.category
                /\ r.CachedTrend = Some(json_dumps(c.trend))

\* C3 as stated: the table holds at most one row per ticker.
C3_OneRowPerTicker ==
    \A i, j \in 1..Len(table) : table[i].Ticker = table[j].Ticker => i = j

\* The body of a POST has no ticker, or shares that are missing, zero or
\* negative.
BadAdd(body) ==
    \/ ~TruthyStr(DictGet(body.ticker, None))
    \/ ~TruthyNum(DictGet(body.shares, None))
    \/ DictGet(body.shares, None)[1] <= 0

\* C8 as stated: a POST add without a ticker or with shares <= 0 is answered
\* 400 and leaves the table unchanged.
C8_BadAddIs400 ==
    [][(resp'.op = "POST" /\ BadAdd(resp'.req)) =>
            (resp'.status = 400 /\ table' = table)]_vars

\* C9 as stated: after a successful POST add the inserted row is Fresh and
\* caches the price, category and trend that the POST's fetch returned.
C9_AddPrimesCache ==
    (resp.op = "POST" /\ resp.status = 201) =>
        LET row == table[Len(table)]
            live == resp.live[1]
        IN  /\ row.LastUpdated = Some(resp.at)
            /\ row.category = Some(live.category)
            /\ row.CachedTrend = Some(json_dumps(live.trend))
            /\ row.CurrentPrice = live.price

\* How many entries of the GET's list are for ticker t
Listed(t) == Cardinality({i \in 1..Len(resp.list) : resp.list[i].ticker = t})

Failed(t) == \E c \in Calls : c.ticker = t /\ c.raised

\* C10 as stated: a GET answers 200, omits every ticker whose enrichment
\* failed and lists every other stored ticker exactly once.
C10_FailuresOmittedOthersOnce ==
    resp.op = "GET" =>
        /\ resp.status = 200
        /\ \A i \in 1..Len(table) :
             Listed(table[i].Ticker) = IF Failed(table[i].Ticker) THEN 0 ELSE 1

-----------------------------------------------------------------------------
(* Claims about the importer, checked under SpecImport                     *)

\* The last request was an upload that carried a file.
Uploaded == resp.op = "upload" /\ resp.req # None

File == resp.req[1]

\* A line of the file has text in every cell.
CompleteLine(row) ==
    \A cell \in {row.Symbol, row.Quantity, row.Cost, row.LastPrice, row.Value} :
        cell # Absent /\ cell[1] # None

\* The Symbol of a line, stripped and upper-cased
SymbolOf(row) == upper(strip(row.Symbol[1][1]))

\* The non-position rows the specification names: blank, the "TOTAL" footer,
\* the repeated "SYMBOL" header, anything containing "PENDING".
IsSentinel(ticker) ==
    ticker = <<>> \/ ticker = TOTAL \/ ticker = SYMBOL \/ contains(ticker, PENDING)

\* How often ticker t was upserted by the last upload
Upserts(t) == Cardinality({i \in 1..Len(resp.upserted) : resp.upserted[i] = t})

\* Lines whose numeric cells all parse
WellFormedLines == {RowAapl, RowMsft, RowCash, RowBlank, RowTotal, RowPending}

\* The shares and cost basis stored for a ticker
Positions(tbl, t) == {<<tbl[i].Shares, tbl[i].PurchasePrice>> : i \in Matching(tbl, t)}

\* C4 as stated: importing the same file again returns the same count,
\* leaves the stored shares and purchasePrice of every ticker of the file as
\* they were after the first import, and leaves one row per such ticker.
C4_ReimportSameResult ==
    [][(resp'.op = "upload" /\ resp'.req # None /\ resp'.again /\ ~resp'.aborted) =>
            /\ resp'.count = resp.count
            /\ \A i \in 1..Len(resp'.upserted) :
                /\ Positions(table', resp'.upserted[i]) = Positions(table, resp'.upserted[i])
                /\ CountRows(table', resp'.upserted[i]) = 1]_vars

\* C5 as stated, for files whose lines all parse: no blank, TOTAL, SYMBOL or
\* PENDING line is upserted, and the count is the number of the other lines.
C5_SentinelRowsSkipped ==
    (Uploaded /\ \A i \in 1..Len(File) : File[i] \in WellFormedLines) =>
        /\ \A i \in 1..Len(resp.upserted) : ~IsSentinel(resp.upserted[i])
        /\ resp.count =
             Cardinality({i \in 1..Len(File) : ~IsSentinel(SymbolOf(File[i]))})

\* The cost-basis cell of a line is "n/a" or "--"
CostNotGiven(row) == CleanMoney(row.Cost[1][1]) \in {NotAvailable, DashDash}

\* C6 as stated: every line that has all its cells and is no sentinel is
\* upserted and counted, whatever text its numeric cells hold, and a cost
\* basis of "n/a" or "--" is stored as 0.0.
C6_UnparsedFieldIsZero ==
    (Uploaded /\ ~resp.aborted) =>
        \A i \in 1..Len(File) :
            (CompleteLine(File[i]) /\ ~IsSentinel(SymbolOf(File[i]))) =>
                /\ Upserts(SymbolOf(File[i])) =
                     Cardinality({j \in 1..Len(File) :
                        /\ CompleteLine(File[j])
                        /\ SymbolOf(File[j]) = SymbolOf(File[i])})
                /\ (i = Len(File) /\ CostNotGiven(File[i])) =>
                     \A r \in RowsOf(SymbolOf(File[i])) : r.PurchasePrice = Some(0)

\* C7 as stated: every upload visits every line, reaches the commit and
\* returns a count, and every line that parses is upserted and counted.
C7_ImportNeverAborts ==
    Uploaded =>
        /\ ~resp.aborted
        /\ resp.status = 200
        /\ resp.visited = Len(File)
        /\ \A i \in 1..Len(File) :
             File[i] \in {RowAapl, RowMsft, RowCash} => Upserts(SymbolOf(File[i])) >= 1

-----------------------------------------------------------------------------
(* get_exhaustive_data on its own: tickers and provider replies            *)

\* line 259 / line 88: one call of get_exhaustive_data, for a ticker and
\* what the provider answers the lookup it makes.
Classify(tickers, replies) ==
    \E ticker \in tickers, reply \in replies :
            /\ resp' = [NoResp EXCEPT !.op = "classify",
                                      !.req = [ticker |-> ticker, reply |-> reply],
                                      !.live = Some(get_exhaustive_data(ticker, reply))]
            /\ UNCHANGED <<table, now, gets>>

FDRXX_Stars == <<"F","D","R","X","X","*","*">>

SPAXX_Star == <<"S","P","A","X","X","*">>

Text_spaxx == <<"s","p","a","x","x">>

SPAXXB == <<"S","P","A","X","X","B">>

SP1XX == <<"S","P","1","X","X">>

BIL == <<"B","I","L">>

SGOV == <<"S","G","O","V">>

CLIP == <<"C","L","I","P">>

SHV == <<"S","H","V">>

VGSH == <<"V","G","S","H">>

BRKB == <<"B","R","K","B">>

AAPL_Star == <<"A","A","P","L","*">>

VXUS == <<"V","X","U","S">>

ClassifyTickers ==
    { SPAXX, FDRXX_Stars, SPAXX_Star, Text_spaxx, SPAXXB, SP1XX, BIL, SGOV, CLIP,
      SHV, VGSH, BRKB, AAPL, Text_aapl, AAPL_Star, VXUS }

ETF == Present(Some("ETF"))

\* An ETF whose long name holds "International"
ReplyEtfIntl ==
    Reply(FALSE, Absent, Present(Some(6000)), ETF, Absent,
          Present(Some(<<"T","o","t","a","l"," ">> \o International)), <<Some(6000)>>)

\* An ETF with another long name, and a NaN close
ReplyEtf ==
    Reply(FALSE, Absent, Present(Some(9100)), ETF, Absent,
          Present(Some(<<"B","i","l","l","s">>)), <<None, Some(9100)>>)

\* An ETF without a long name, priced by its last close
ReplyEtfNoName == Reply(FALSE, Absent, Absent, ETF, Absent, Absent, <<Some(5000)>>)

\* An ETF whose long name is null
ReplyEtfNullName == Reply(FALSE, Absent, Absent, ETF, Absent, Present(None), <<Some(5000)>>)

\* A stock of another sector
ReplySector ==
    Reply(FALSE, Present(Some(4000)), Absent, Present(Some("EQUITY")),
          Present(Some("Financial Services")), Absent, <<Some(4000)>>)

\* An info dict with nothing in it and no history
ReplyBare == Reply(FALSE, Absent, Absent, Absent, Absent, Absent, <<>>)

ClassifyReplies ==
    { ReplyRaises, ReplyStock, ReplyNullPrice, ReplyEtfIntl, ReplyEtf, ReplyEtfNoName,
      ReplyEtfNullName, ReplySector, ReplyBare }

NextClassify == Classify(ClassifyTickers, ClassifyReplies)

SpecClassify == Init /\ [][NextClassify]_vars

\* The last step was a get_exhaustive_data call
Classifying == resp.op = "classify"

\* Three letters, "XX", then nothing but '*'
IsCashTicker(t) ==
    /\ Len(t) >= 5
    /\ \A i \in 1..3 : t[i] \in {UpperCase[k] : k \in 1..Len(UpperCase)}
    /\ t[4] = "X" /\ t[5] = "X"
    /\ \A i \in 6..Len(t) : t[i] = "*"

\* C11: for a ticker of three letters, "XX" and optional trailing '*',
\* get_exhaustive_data returns price 1.0, category "Cash & Liquidity" and a
\* trend of seven 1.0, asks the provider nothing, whatever the provider would
\* have answered.
C11_CashPatternIsCash ==
    (Classifying /\ IsCashTicker(resp.req.ticker)) =>
        /\ resp.live[1].price = Some(100)
        /\ resp.live[1].category = "Cash & Liquidity"
        /\ resp.live[1].trend = <<100, 100, 100, 100, 100, 100, 100>>
        /\ resp.live[1].queried = <<>>

\* C11 witness: a ticker with trailing '*' whose lookup would have failed is
\* classified as cash.
C11_Witness ==
    /\ Classifying
    /\ resp.req.ticker = FDRXX_Stars
    /\ resp.req.reply.raises
    /\ resp.live[1].price = Some(100)
    /\ Len(resp.live[1].trend) = 7

\* The lookup of the last call answered and the classification completed
LookupSucceeded ==
    /\ Classifying
    /\ ~resp.req.reply.raises
    /\ resp.live[1].queried # <<>>
    /\ resp.live[1].category # "Other"

\* C15 as stated: a ticker of the allow-list whose lookup succeeds is
\* categorised "Cash & Liquidity", whatever quote type, sector or long name
\* the provider reports.
C15_AllowListBeforeType ==
    (LookupSucceeded /\ resp.req.ticker \in {BIL, SGOV, CLIP, SHV, VGSH}) =>
        resp.live[1].category = "Cash & Liquidity"

\* The normalized symbol: upper case, '$' and '*' removed, BRKB as BRK-B
Normalized(t) ==
    LET u == remove(remove(upper(t), "*"), "$")
    IN  IF u = BRKB THEN <<"B","R","K","-","B">> ELSE u

\* C16 as stated: every lookup get_exhaustive_data makes is for the
\* normalized symbol.
C16_LookupUsesNormalized ==
    Classifying =>
        \A i \in 1..Len(resp.live[1].queried) :
            resp.live[1].queried[i] = Normalized(resp.req.ticker)

-----------------------------------------------------------------------------
(* Claims about refreshes, checked under Spec                              *)

\* C12: a step to a GET leaves the number of rows, and the ticker, shares,
\* purchasePrice and purchaseDate of every row, as they were, and leaves
\* every row whose ticker no call of the GET wrote entirely as it was.
C12_RefreshWritesCacheColumnsOnly ==
    [][resp'.op = "GET" =>
            /\ Len(table') = Len(table)
            /\ \A i \in 1..Len(table) :
                /\ table'[i].Ticker = table[i].Ticker
                /\ table'[i].Shares = table[i].Shares
                /\ table'[i].PurchasePrice = table[i].PurchasePrice
                /\ table'[i].PurchaseDate = table[i].PurchaseDate
                /\ (\A k \in 1..Len(resp'.calls) :
                        resp'.calls[k].ticker = table[i].Ticker => ~resp'.calls[k].wrote)
                     => table'[i] = table[i]]_vars

\* C12 witness: a GET over two tickers wrote the degraded defaults for one
\* and not the other; the written row keeps its shares and purchase date.
C12_Witness ==
    /\ resp.op = "GET"
    /\ Len(table) = 2
    /\ \E c, d \in Calls :
        /\ c.wrote /\ c.failed /\ ~d.wrote /\ d.ticker # c.ticker
        /\ \E r \in RowsOf(c.ticker) :
            /\ r.Shares = c.read[1].Shares
            /\ r.Shares # None
            /\ r.LastUpdated = Some(resp.at)

\* A call read a Stale row and its provider lookup raised
FailedStale(c) == ReadStale(c) /\ c.failed

\* The degraded defaults: 0.0, "Other", no trend
IsDefaults(price, category, trend) ==
    price = Some(0) /\ category = Some("Other") /\ trend = <<>>

\* After a GET, every call that read a Stale row and whose lookup raised
\* returned the defaults and the ticker's rows hold them, stamped with the
\* time of the GET.
C13_Written ==
    \A c \in Calls :
        FailedStale(c) =>
            /\ ~c.raised /\ c.passes = 1 /\ c.wrote
            /\ IsDefaults(c.price, c.category, c.trend)
            /\ \A r \in RowsOf(c.ticker) :
                /\ r.CurrentPrice = Some(0)
                /\ r.category = Some("Other")
                /\ r.CachedTrend = Some(<<Tok("[", 0), Tok("]", 0)>>)
                /\ r.LastUpdated = Some(resp.at)

\* A GET that follows such a GET less than 6 hours later serves the ticker
\* from the cache: no lookup, no UPDATE, the defaults returned.
C13_NextReadCached ==
    (resp.op = "GET" /\ resp'.op = "GET" /\ now' = now
        /\ (resp'.at - resp.at) * TickSeconds < 21600) =>
        \A c \in Calls :
            FailedStale(c) =>
                \A k \in 1..Len(resp'.calls) :
                    resp'.calls[k].ticker = c.ticker =>
                        /\ NoPassNoWrite(resp'.calls[k])
                        /\ ~resp'.calls[k].raised
                        /\ IsDefaults(resp'.calls[k].price, resp'.calls[k].category,
                                      resp'.calls[k].trend)

\* C13: when the lookup for a Stale ticker fails, the read returns 0.0,
\* "Other" and an empty trend, the row is written with those and
\* lastUpdated = now, and the next read within 6 hours makes no lookup.
C13_FailedRefreshIsCached == [][C13_Written' /\ C13_NextReadCached]_vars

\* C13 witness: three hours after a GET whose lookup failed wrote the
\* defaults, a GET served them from the cache.
C13_Witness ==
    \E c \in Calls :
        /\ ReadFresh(c)
        /\ c.read[1].LastUpdated[1] < resp.at
        /\ c.read[1].category = Some("Other")
        /\ c.read[1].CurrentPrice = Some(0)
        /\ NoPassNoWrite(c)
        /\ IsDefaults(c.price, c.category, c.trend)

\* The last request imported the export of a cash line (SPAXX, 25.5 units,
\* cost n/a, last price $1.00) and a position (aapl, 10 shares, cost
\* $150.00, last price $120.00).
ImportedCore == resp.op = "upload" /\ resp.req = Some(<<RowCash, RowAapl>>)

\* A row holds what the importer stores: shares, cost, price, no stamp
Imported(r, shares, cost, price) ==
    /\ r.Shares = Some(shares)
    /\ r.PurchasePrice = Some(cost)
    /\ r.CurrentPrice = Some(price)
    /\ r.LastUpdated = None

\* After the import both tickers have a row, and their rows hold the
\* imported values and a null lastUpdated.
C14_Stored ==
    ImportedCore =>
        /\ resp.upserted = <<SPAXX, AAPL>>
        /\ RowsOf(SPAXX) # {} /\ RowsOf(AAPL) # {}
        /\ \A r \in RowsOf(SPAXX) : Imported(r, 2550, 0, 100)
        /\ \A r \in RowsOf(AAPL) : Imported(r, 1000, 15000, 12000)

\* A GET that follows an import makes a get_exhaustive_data pass for every
\* ticker the import upserted.
C14_NextGetRefreshes ==
    (resp.op = "upload" /\ resp'.op = "GET") =>
        \A i \in 1..Len(resp.upserted) :
            \E k \in 1..Len(resp'.calls) :
                /\ resp'.calls[k].ticker = resp.upserted[i]
                /\ resp'.calls[k].read # None
                /\ resp'.calls[k].read[1].LastUpdated = None
                /\ resp'.calls[k].passes = 1

\* C14: after an import upserts a ticker its row has the imported shares,
\* purchasePrice and currentPrice and a null lastUpdated, whether or not the
\* row existed, and the first GET after the import refreshes every imported
\* ticker.
C14_ImportClearsStamp == [][C14_Stored' /\ C14_NextGetRefreshes]_vars

\* C14 witness: the import updated a row that a POST or a refresh had
\* stamped (it has a category), and a GET after it refreshed the ticker.
C14_Witness ==
    /\ resp.op = "GET"
    /\ \E c \in Calls :
        /\ c.ticker = AAPL
        /\ c.read # None
        /\ Imported(c.read[1], 1000, 15000, 12000)
        /\ c.read[1].category # None
        /\ c.passes = 1

\* C20: every row with a non-null lastUpdated has a cachedTrend that
\* json.loads reads as a list and a non-null category, and no call of a GET
\* that read a Fresh row raised.
C20_StampedRowsHaveTrend ==
    /\ \A i \in 1..Len(table) :
        table[i].LastUpdated # None =>
            /\ table[i].CachedTrend # None
            /\ json_loads(table[i].CachedTrend).ok
            /\ table[i].category # None
    /\ \A c \in Calls : ReadFresh(c) => ~c.raised

\* C20 witness: after a PUT, the table holds a stamped row next to a row
\* the importer wrote, which has no stamp, no trend and no category.
C20_Witness ==
    /\ resp.op = "PUT" /\ resp.status = 200
    /\ \E i, j \in 1..Len(table) :
        /\ table[i].LastUpdated # None
        /\ json_loads(table[i].CachedTrend).v = <<11800, 12000>>
        /\ table[j].LastUpdated = None
        /\ table[j].CachedTrend = None

-----------------------------------------------------------------------------
(* Claims about the rows the importer stores                               *)

\* A line is cash-like: its ticker, placeholder markers aside, ends in "XX",
\* or its quantity is empty or "--".
IsCashLike(row) ==
    \/ endswith(remove(remove(SymbolOf(row), "*"), "$"), <<"X","X">>)
    \/ strip(row.Quantity[1][1]) \in {<<>>, DashDash}

\* The number a cell holds, 0.0 when it is empty or "--"
NumberIn(cell) ==
    IF CleanMoney(cell[1][1]) \in {<<>>, DashDash} THEN 0
    ELSE float(CleanMoney(cell[1][1])).v

\* Line i is the last line of the file for its ticker, and every line of
\* the file for that ticker was upserted.
Decides(i) ==
    /\ CompleteLine(File[i])
    /\ ~IsSentinel(SymbolOf(File[i]))
    /\ \A j \in (i + 1)..Len(File) :
        CompleteLine(File[j]) => SymbolOf(File[j]) # SymbolOf(File[i])
    /\ Upserts(SymbolOf(File[i])) =
         Cardinality({j \in 1..Len(File) :
            CompleteLine(File[j]) /\ SymbolOf(File[j]) = SymbolOf(File[i])})

\* C17 as stated: a cash-like line is stored with currentPrice 1.0 and the
\* shares of its quantity (0.0 when that is empty or "--"); every other
\* line is stored with the currentPrice of its Last Price.
C17_CashLikeRowsAtOne ==
    (Uploaded /\ ~resp.aborted) =>
        \A i \in 1..Len(File) :
            Decides(i) =>
                \A r \in RowsOf(SymbolOf(File[i])) :
                    IF IsCashLike(File[i])
                    THEN /\ r.CurrentPrice = Some(100)
                         /\ r.Shares = Some(NumberIn(File[i].Quantity))
                    ELSE r.CurrentPrice = Some(NumberIn(File[i].LastPrice))

-----------------------------------------------------------------------------
(* Positions: the shares that imports, adds and updates store              *)

\* A short position, as an export lists it
RowShort ==
    CsvRow(Cell(MSFT), Cell(<<"-","5">>), Cell(<<"3","0","0">>), Cell(<<"3","1","0">>),
           Cell(<<"-","1","5","5","0">>))

PositionFiles == {Some(<<RowMsft>>), Some(<<RowShort>>), Some(<<RowCash, RowAapl>>)}

\* Adds with positive, zero, negative and missing shares
PositionAdds ==
    { Body(Present(Some(AAPL)), Present(Some(1000)), Present(Some(15000)), Absent),
      Body(Present(Some(AAPL)), Present(Some(0)), Present(Some(15000)), Absent),
      Body(Present(Some(AAPL)), Present(Some(-500)), Present(Some(15000)), Absent),
      Body(Present(Some(AAPL)), Absent, Present(Some(15000)), Absent) }

\* Updates with positive, zero, negative and missing shares
PositionUpdates ==
    { Body(Present(Some(AAPL)), Present(Some(2000)), Present(Some(9000)), Absent),
      Body(Present(Some(AAPL)), Present(Some(0)), Present(Some(9000)), Absent),
      Body(Present(Some(AAPL)), Present(Some(-500)), Present(Some(9000)), Absent),
      Body(Present(Some(MSFT)), Absent, Absent, Absent) }

NextPositions ==
    \/ Upload(PositionFiles)
    \/ Post(PositionAdds, {ReplyStock})
    \/ Put(PositionUpdates)

SpecPositions == Init /\ [][NextPositions]_vars

\* C18 as stated: every row of the table has shares >= 0.
C18_SharesNonNegative ==
    \A i \in 1..Len(table) : table[i].Shares # None /\ table[i].Shares[1] >= 0

-----------------------------------------------------------------------------
(* Concurrent GET requests (lines 183-223), statement by statement         *)

\* One UPDATE of lines 92-96, with its parameters
Write(ticker, lu, tr, cat, cp) == [ticker |-> ticker, lu |-> lu, tr |-> tr, cat |-> cat, cp |-> cp]

RECURSIVE ApplyWrites(_, _)
ApplyWrites(tbl, ws) ==
    IF ws = <<>> THEN tbl
    ELSE ApplyWrites(SqlUpdateCache(tbl, ws[1].ticker, ws[1].lu, ws[1].tr, ws[1].cat,
                                    ws[1].cp), Tail(ws))

\* The table as request p's connection sees it: what is committed, and the
\* UPDATEs of its own open transaction.
View(p) == IF gets[p].pc = "done" THEN table ELSE ApplyWrites(table, gets[p].pending)

\* Another request's open transaction holds the lock of an UPDATE of ticker
Locked(p, ticker) ==
    \E q \in Requests \ {p} :
        /\ gets[q].pc # "done"
        /\ \E i \in 1..Len(gets[q].pending) : gets[q].pending[i].ticker = ticker

\* The loop of line 192 moves to its next row, or to line 223
Advance(g) ==
    [g EXCEPT !.rows = Tail(g.rows),
              !.pc = IF Tail(g.rows) = <<>> THEN "respond" ELSE "read"]

Triple(price, category, trend) == [price |-> price, category |-> category, trend |-> trend]

\* lines 188-189: the request begins and fetches the rows
Begin(p) ==
    /\ gets[p].pc = "idle"
    /\ gets' = [gets EXCEPT ![p] = [@ EXCEPT !.rows = table,
                                             !.pc = IF table = <<>> THEN "respond" ELSE "read"]]
    /\ UNCHANGED <<table, now, resp>>

\* lines 76-86: the SELECT TOP 1 of the row's ticker; a Fresh row is
\* answered from the cache, when json.loads raises line 218 skips the row.
Select(p) ==
    /\ gets[p].pc = "read"
    /\ \E read \in TopOne(View(p), gets[p].rows[1].Ticker) :
        IF read # None /\ IsFresh(read[1], now)
        THEN \E trend \in {json_loads(read[1].CachedTrend)} :
                gets' = [gets EXCEPT ![p] = Advance(
                    [@ EXCEPT !.read = read, !.live = None,
                              !.returned = IF trend.ok
                                           THEN Some(Triple(
                                                IF TruthyNum(read[1].CurrentPrice)
                                                THEN read[1].CurrentPrice ELSE Some(0),
                                                read[1].category, trend.v))
                                           ELSE None])]
        ELSE gets' = [gets EXCEPT ![p] = [@ EXCEPT !.read = read, !.pc = "fetch"]]
    /\ UNCHANGED <<table, now, resp>>

\* line 89: get_exhaustive_data
Fetch(p, replies) ==
    /\ gets[p].pc = "fetch"
    /\ \E reply \in replies :
        gets' = [gets EXCEPT ![p] = [@ EXCEPT
                    !.live = Some(get_exhaustive_data(gets[p].rows[1].Ticker, reply)),
                    !.pc = "update"]]
    /\ UNCHANGED <<table, now, resp>>

\* lines 92-98: the UPDATE, which waits while another transaction holds the
\* rows' lock, and the return.  float(None) raises before the UPDATE is
\* issued and line 218 skips the row.
Update(p) ==
    /\ gets[p].pc = "update"
    /\ \E ticker \in {gets[p].rows[1].Ticker}, live \in {gets[p].live[1]} :
        IF live.price = None
        THEN gets' = [gets EXCEPT ![p] = Advance([@ EXCEPT !.returned = None])]
        ELSE /\ ~Locked(p, ticker)
             /\ gets' = [gets EXCEPT ![p] = Advance(
                    [@ EXCEPT !.pending = Append(@, Write(ticker, Some(now),
                                                          Some(json_dumps(live.trend)),
                                                          Some(live.category), live.price)),
                              !.returned = Some(Triple(live.price, Some(live.category),
                                                       live.trend))])]
    /\ UNCHANGED <<table, now, resp>>

\* line 223: the response; leaving the with block commits the transaction
Commit(p) ==
    /\ gets[p].pc = "respond"
    /\ table' = ApplyWrites(table, gets[p].pending)
    /\ gets' = [q \in Requests |->
                    IF q = p THEN [gets[q] EXCEPT !.pc = "done", !.last = gets[q].pending # <<>>]
                    ELSE IF gets[p].pending # <<>> THEN [gets[q] EXCEPT !.last = FALSE]
                    ELSE gets[q]]
    /\ UNCHANGED <<now, resp>>

\* The table when the requests arrive: AAPL imported (so Stale) and then
\* given a purchase date by a PUT.
RaceTable ==
    SqlUpdatePosition(process_fidelity_csv(<<RowAapl>>, <<>>).table, AAPL,
                      Some(2000), Some(9000), Some("2024-03-04"))

RaceInit ==
    /\ table = RaceTable
    /\ now = 0
    /\ resp = NoResp
    /\ gets = [p \in Requests |-> Idle]

RaceReplies == {ReplyStock, ReplySector, ReplyRaises, ReplyNullPrice}

NextRace ==
    \/ Tick
    \/ \E p \in Requests : Begin(p)
    \/ \E p \in Requests : Select(p)
    \/ \E p \in Requests : Fetch(p, RaceReplies)
    \/ \E p \in Requests : Update(p)
    \/ \E p \in Requests : Commit(p)

SpecRace == RaceInit /\ [][NextRace]_vars

\* Both requests have answered, and both found the ticker Stale
BothFoundStale ==
    \A p \in Requests :
        /\ gets[p].pc = "done"
        /\ gets[p].read # None
        /\ gets[p].live # None

\* Request p's UPDATE wrote all four cache columns of row r
WrittenBy(r, p) ==
    /\ gets[p].pending # <<>>
    /\ r.CurrentPrice = gets[p].live[1].price
    /\ r.category = Some(gets[p].live[1].category)
    /\ r.CachedTrend = Some(json_dumps(gets[p].live[1].trend))
    /\ r.LastUpdated = gets[p].pending[1].lu

\* C19 as stated: when two GETs both found the ticker Stale, each returned
\* the triple of its own fetch, the row's four cache columns are those of the
\* request that committed last, stamped with its time, and shares,
\* purchasePrice and purchaseDate are as before.
C19_RaceIsBenign ==
    BothFoundStale =>
        /\ \A p \in Requests :
            /\ gets[p].returned # None
            /\ gets[p].returned[1] = Triple(gets[p].live[1].price,
                                            Some(gets[p].live[1].category),
                                            gets[p].live[1].trend)
        /\ Len(table) = Len(RaceTable)
        /\ \A i \in 1..Len(table) :
            /\ \E p \in Requests : gets[p].last /\ WrittenBy(table[i], p)
            /\ table[i].Shares = RaceTable[i].Shares
            /\ table[i].PurchasePrice = RaceTable[i].PurchasePrice
            /\ table[i].PurchaseDate = RaceTable[i].PurchaseDate

=============================================================================
